---- MODULE Spec2Model ----
(***************************************************************************)
(* The two tutorial notebooks of graspy as straight-line programs run by a *)
(* Python interpreter: the latent-distribution notebook ("ldt") and the    *)
(* Omnibus notebook ("omni").  Every code cell is a sequence of statement  *)
(* records; one action per kind of statement executes the statement at pc. *)
(* Two runs of the same notebook are stepped side by side, each starting   *)
(* from its own state of the global NumPy generator.                       *)
(*                                                                         *)
(* Floating-point literals of the notebooks have one decimal digit; they   *)
(* are held in tenths (0.9 is 9, .3 is 3).                                 *)
(***************************************************************************)
EXTENDS Integers, Sequences, FiniteSets, TLC

\* Bounds of the model.
MaxEntropy == 2      \* generator states a fresh process may start from
MaxDim == 3          \* largest embedding dimension select_dimension may pick

Run == {1, 2}

(***************************************************************************)
(* Values                                                                  *)
(***************************************************************************)
NoneV == [kind |-> "none"]
IntV(i) == [kind |-> "int", i |-> i]
ListV(xs) == [kind |-> "list", xs |-> xs]
MatV(m) == [kind |-> "matrix", m |-> m]
NameV(n) == [kind |-> "imported", name |-> n]

RECURSIVE ListRepeat(_, _)
\* Python's  xs * k  on a list.
ListRepeat(xs, k) == IF k <= 0 THEN <<>> ELSE xs \o ListRepeat(xs, k - 1)

RECURSIVE SumSeq(_)
SumSeq(xs) == IF xs = <<>> THEN 0 ELSE Head(xs) + SumSeq(Tail(xs))

(***************************************************************************)
(* Statements                                                              *)
(***************************************************************************)
\* A statement: the names it binds (tgt), the names it reads (reads), and
\* the literals written in it (lit, attr).
Stmt(op, line, tgt, reads) ==
    [op |-> op, line |-> line, tgt |-> tgt, reads |-> reads,
     lit |-> NoneV, attr |-> ""]
StmtL(op, line, tgt, reads, lit) ==
    [op |-> op, line |-> line, tgt |-> tgt, reads |-> reads,
     lit |-> lit, attr |-> ""]
StmtA(op, line, tgt, reads, attr) ==
    [op |-> op, line |-> line, tgt |-> tgt, reads |-> reads,
     lit |-> NoneV, attr |-> attr]

LdtArgs(test, metric, n) ==
    [kind |-> "ldtargs", test |-> test, metric |-> metric, nboot |-> n]
\* Xhat[lo:hi, c] for each column c in cols; hiopen is a missing upper bound.
SliceTo(hi, cols) ==
    [kind |-> "slice", lo |-> 0, hi |-> hi, hiopen |-> FALSE, cols |-> cols]
SliceFrom(lo, cols) ==
    [kind |-> "slice", lo |-> lo, hi |-> 0, hiopen |-> TRUE, cols |-> cols]
RangeOf(stop, cols) == [kind |-> "range", stop |-> stop, cols |-> cols]

(***************************************************************************)
(* The latent-distribution notebook                                        *)
(***************************************************************************)
\* LdtCell1 with pairplot left out of the import of line 24.
LdtCell1_NoPairplot ==
    << Stmt("import", 16, <<"np">>, <<>>),
       Stmt("import", 17, <<"plt">>, <<>>),
       StmtL("seed", 18, <<>>, <<"np">>, IntV(8888)),
       Stmt("import", 20, <<"LatentDistributionTest">>, <<>>),
       Stmt("import", 21, <<"AdjacencySpectralEmbed">>, <<>>),
       Stmt("import", 22, <<"sbm", "rdpg">>, <<>>),
       Stmt("import", 23, <<"symmetrize">>, <<>>),
       Stmt("import", 24, <<"heatmap">>, <<>>),
       Stmt("magic", 26, <<>>, <<>>) >>

LdtCell1 ==
    << Stmt("import", 16, <<"np">>, <<>>),
       Stmt("import", 17, <<"plt">>, <<>>),
       StmtL("seed", 18, <<>>, <<"np">>, IntV(8888)),
       Stmt("import", 20, <<"LatentDistributionTest">>, <<>>),
       Stmt("import", 21, <<"AdjacencySpectralEmbed">>, <<>>),
       Stmt("import", 22, <<"sbm", "rdpg">>, <<>>),
       Stmt("import", 23, <<"symmetrize">>, <<>>),
       Stmt("import", 24, <<"heatmap", "pairplot">>, <<>>),
       Stmt("magic", 26, <<>>, <<>>) >>

LdtCell2 ==
    << StmtL("assign", 44, <<"n_components">>, <<>>, IntV(2)),
       StmtL("assign", 45, <<"P">>, <<"np">>, MatV(<< <<9, 6>>, <<6, 9>> >>)),
       StmtL("assign", 47, <<"csize">>, <<>>, ListV(ListRepeat(<<50>>, 2))),
       Stmt("sbm", 48, <<"A1">>, <<"sbm", "csize", "P">>),
       Stmt("ase", 49, <<"X1">>,
            <<"AdjacencySpectralEmbed", "n_components", "A1">>),
       Stmt("display", 50, <<>>, <<"heatmap", "A1">>),
       Stmt("display", 51, <<>>, <<"pairplot", "X1">>) >>

LdtCell3 ==
    << Stmt("sbm", 67, <<"A2">>, <<"sbm", "csize", "P">>),
       Stmt("ase", 68, <<"X2">>,
            <<"AdjacencySpectralEmbed", "n_components", "A2">>),
       Stmt("sbm", 70, <<"A1">>, <<"sbm", "csize", "P">>),
       Stmt("ase", 71, <<"X1">>,
            <<"AdjacencySpectralEmbed", "n_components", "A1">>),
       Stmt("display", 72, <<>>, <<"heatmap", "A2">>),
       Stmt("display", 73, <<>>, <<"pairplot", "X2">>) >>

\* LdtCell4 with the embeddings handed to fit instead of the graphs.
LdtCell4_FitEmbeddings ==
    << StmtL("newldt", 110, <<"ldt_dcorr">>, <<"LatentDistributionTest">>,
             LdtArgs("dcorr", "euclidean", 200)),
       Stmt("fit", 111, <<>>, <<"ldt_dcorr", "X1", "X2">>) >>

LdtCell4 ==
    << StmtL("newldt", 110, <<"ldt_dcorr">>, <<"LatentDistributionTest">>,
             LdtArgs("dcorr", "euclidean", 200)),
       Stmt("fit", 111, <<>>, <<"ldt_dcorr", "A1", "A2">>) >>

LdtCell5 ==
    << StmtL("newldt", 120, <<"ldt_mgc">>, <<"LatentDistributionTest">>,
             LdtArgs("mgc", "euclidean", 200)),
       Stmt("fit", 121, <<>>, <<"ldt_mgc", "A1", "A2">>) >>

LdtCell6 ==
    << StmtA("print", 130, <<>>, <<"ldt_dcorr", "ldt_mgc">>, "p_value_") >>

LdtCell7 ==
    << Stmt("subplots", 139, <<"fig", "ax">>, <<"plt">>),
       StmtA("axcall", 140, <<>>, <<"ax", "ldt_dcorr">>, "null_distribution_"),
       StmtA("axcall", 141, <<>>, <<"ax", "ldt_dcorr">>, "sample_T_statistic_"),
       StmtA("axcall", 142, <<>>, <<"ax", "ldt_dcorr">>, "p_value_"),
       StmtA("axcall", 143, <<>>, <<"ax", "ldt_mgc">>, "null_distribution_"),
       StmtA("axcall", 144, <<>>, <<"ax", "ldt_mgc">>, "sample_T_statistic_"),
       StmtA("axcall", 145, <<>>, <<"ax", "ldt_mgc">>, "p_value_"),
       Stmt("pltshow", 146, <<>>, <<"plt">>) >>

LdtCell8 ==
    << StmtL("assign", 171, <<"P2">>, <<"np">>, MatV(<< <<9, 4>>, <<4, 9>> >>)),
       Stmt("sbm", 174, <<"A3">>, <<"sbm", "csize", "P2">>),
       Stmt("display", 175, <<>>, <<"heatmap", "A3">>),
       Stmt("ase", 176, <<"X3">>,
            <<"AdjacencySpectralEmbed", "n_components", "A3">>),
       Stmt("display", 177, <<>>, <<"pairplot", "X3">>) >>

LdtCell9 ==
    << StmtL("newldt", 195, <<"ldt_dcorr">>, <<"LatentDistributionTest">>,
             LdtArgs("dcorr", "euclidean", 200)),
       Stmt("fit", 196, <<>>, <<"ldt_dcorr", "A1", "A3">>) >>

\* LdtCell10 with the fit of the first section copied unchanged.
LdtCell10_FitA2 ==
    << StmtL("newldt", 205, <<"ldt_mgc">>, <<"LatentDistributionTest">>,
             LdtArgs("mgc", "euclidean", 200)),
       Stmt("fit", 206, <<>>, <<"ldt_mgc", "A1", "A2">>) >>

LdtCell10 ==
    << StmtL("newldt", 205, <<"ldt_mgc">>, <<"LatentDistributionTest">>,
             LdtArgs("mgc", "euclidean", 200)),
       Stmt("fit", 206, <<>>, <<"ldt_mgc", "A1", "A3">>) >>

LdtCell11 ==
    << StmtA("print", 215, <<>>, <<"ldt_dcorr", "ldt_mgc">>, "p_value_") >>

LdtCell12 ==
    << Stmt("subplots", 224, <<"fig", "ax">>, <<"plt">>),
       StmtA("axcall", 225, <<>>, <<"ax", "ldt_dcorr">>, "null_distribution_"),
       StmtA("axcall", 226, <<>>, <<"ax", "ldt_dcorr">>, "sample_T_statistic_"),
       StmtA("axcall", 227, <<>>, <<"ax", "ldt_dcorr">>, "p_value_"),
       StmtA("axcall", 228, <<>>, <<"ax", "ldt_mgc">>, "null_distribution_"),
       StmtA("axcall", 229, <<>>, <<"ax", "ldt_mgc">>, "sample_T_statistic_"),
       StmtA("axcall", 230, <<>>, <<"ax", "ldt_mgc">>, "p_value_"),
       Stmt("pltshow", 231, <<>>, <<"plt">>) >>

\* The code cells in file order (the last code cell, line 239, is empty).
LdtNotebook ==
    LdtCell1 \o LdtCell2 \o LdtCell3 \o LdtCell4 \o LdtCell5 \o LdtCell6
    \o LdtCell7 \o LdtCell8 \o LdtCell9 \o LdtCell10 \o LdtCell11 \o LdtCell12

(***************************************************************************)
(* The Omnibus notebook                                                    *)
(***************************************************************************)
OmniCell1 ==
    << Stmt("import", 18, <<"graspy">>, <<>>),
       Stmt("import", 20, <<"plt">>, <<>>),
       Stmt("import", 21, <<"np">>, <<>>),
       Stmt("magic", 22, <<>>, <<>>) >>

\* OmniCell2 with P2 differing from P1 in a second entry.
OmniCell2_P2TwoEntries ==
    << Stmt("import", 52, <<"sbm">>, <<>>),
       StmtL("assign", 54, <<"n">>, <<>>, ListV(<<25, 25>>)),
       StmtL("assign", 55, <<"P1">>, <<>>, MatV(<< <<3, 1>>, <<1, 7>> >>)),
       StmtL("assign", 57, <<"P2">>, <<>>, MatV(<< <<2, 1>>, <<1, 3>> >>)),
       StmtL("seed", 60, <<>>, <<"np">>, IntV(8)),
       Stmt("sbm", 61, <<"G1">>, <<"sbm", "n", "P1">>),
       Stmt("sbm", 62, <<"G2">>, <<"sbm", "n", "P2">>) >>

\* OmniCell2 with the generator seeded after the first graph is sampled.
OmniCell2_SeedAfterG1 ==
    << Stmt("import", 52, <<"sbm">>, <<>>),
       StmtL("assign", 54, <<"n">>, <<>>, ListV(<<25, 25>>)),
       StmtL("assign", 55, <<"P1">>, <<>>, MatV(<< <<3, 1>>, <<1, 7>> >>)),
       StmtL("assign", 57, <<"P2">>, <<>>, MatV(<< <<3, 1>>, <<1, 3>> >>)),
       Stmt("sbm", 61, <<"G1">>, <<"sbm", "n", "P1">>),
       StmtL("seed", 60, <<>>, <<"np">>, IntV(8)),
       Stmt("sbm", 62, <<"G2">>, <<"sbm", "n", "P2">>) >>

OmniCell2 ==
    << Stmt("import", 52, <<"sbm">>, <<>>),
       StmtL("assign", 54, <<"n">>, <<>>, ListV(<<25, 25>>)),
       StmtL("assign", 55, <<"P1">>, <<>>, MatV(<< <<3, 1>>, <<1, 7>> >>)),
       StmtL("assign", 57, <<"P2">>, <<>>, MatV(<< <<3, 1>>, <<1, 3>> >>)),
       StmtL("seed", 60, <<>>, <<"np">>, IntV(8)),
       Stmt("sbm", 61, <<"G1">>, <<"sbm", "n", "P1">>),
       Stmt("sbm", 62, <<"G2">>, <<"sbm", "n", "P2">>) >>

OmniCell3 ==
    << Stmt("import", 82, <<"heatmap">>, <<>>),
       Stmt("display", 84, <<>>, <<"heatmap", "G1">>),
       Stmt("display", 85, <<>>, <<"heatmap", "G2">>) >>

OmniCell4 ==
    << Stmt("import", 115, <<"OmnibusEmbed">>, <<>>),
       Stmt("newomni", 117, <<"embedder">>, <<"OmnibusEmbed">>),
       Stmt("omnifit", 118, <<"Zhat">>, <<"embedder", "G1", "G2">>),
       Stmt("printshape", 120, <<>>, <<"Zhat">>) >>

\* OmniCell5 with the loop running one index too far.
OmniCell5_Range51 ==
    << StmtL("index", 138, <<"Xhat1">>, <<"Zhat">>, IntV(0)),
       StmtL("index", 139, <<"Xhat2">>, <<"Zhat">>, IntV(1)),
       Stmt("subplots", 142, <<"fig", "ax">>, <<"plt">>),
       StmtL("scatter", 143, <<>>, <<"ax", "Xhat1">>, SliceTo(25, <<0, 1>>)),
       StmtL("scatter", 144, <<>>, <<"ax", "Xhat1">>, SliceFrom(25, <<0, 1>>)),
       StmtL("scatter", 145, <<>>, <<"ax", "Xhat2">>, SliceTo(25, <<0, 1>>)),
       StmtL("scatter", 146, <<>>, <<"ax", "Xhat2">>, SliceFrom(25, <<0, 1>>)),
       Stmt("axcall", 147, <<>>, <<"ax">>),
       StmtL("forplot", 150, <<"i">>, <<"ax", "Xhat1", "Xhat2">>,
             RangeOf(51, <<0, 1>>)),
       Stmt("axcall", 153, <<>>, <<"ax">>) >>

OmniCell5 ==
    << StmtL("index", 138, <<"Xhat1">>, <<"Zhat">>, IntV(0)),
       StmtL("index", 139, <<"Xhat2">>, <<"Zhat">>, IntV(1)),
       Stmt("subplots", 142, <<"fig", "ax">>, <<"plt">>),
       StmtL("scatter", 143, <<>>, <<"ax", "Xhat1">>, SliceTo(25, <<0, 1>>)),
       StmtL("scatter", 144, <<>>, <<"ax", "Xhat1">>, SliceFrom(25, <<0, 1>>)),
       StmtL("scatter", 145, <<>>, <<"ax", "Xhat2">>, SliceTo(25, <<0, 1>>)),
       StmtL("scatter", 146, <<>>, <<"ax", "Xhat2">>, SliceFrom(25, <<0, 1>>)),
       Stmt("axcall", 147, <<>>, <<"ax">>),
       StmtL("forplot", 150, <<"i">>, <<"ax", "Xhat1", "Xhat2">>,
             RangeOf(50, <<0, 1>>)),
       Stmt("axcall", 153, <<>>, <<"ax">>) >>

OmniNotebook == OmniCell1 \o OmniCell2 \o OmniCell3 \o OmniCell4 \o OmniCell5

\* The block-probability matrices the tutorial text states.
DocP1 == << <<2, 1>>, <<1, 7>> >>
DocP2 == << <<2, 1>>, <<1, 2>> >>
DocN == <<25, 25>>

Notebook(b) == IF b = "ldt" THEN LdtNotebook ELSE OmniNotebook

(***************************************************************************)
(* State                                                                   *)
(***************************************************************************)
VARIABLES
    nb,       \* the notebook being run: "ldt" or "omni"
    entropy,  \* entropy[r]: what the generator of run r was started from
    dim,      \* the embedding dimension select_dimension picks
    pc,       \* index of the next statement
    iter,     \* next value of the loop variable of a for statement
    err,      \* "none", or the exception that ended the run
    rng,      \* rng[r]: state of the global NumPy generator
    env,      \* env[r]: the kernel's global names
    heap,     \* heap[r]: the LatentDistributionTest objects
    calls,    \* calls[r]: the library calls made so far
    reads,    \* reads[r]: the result attributes read so far
    marks     \* marks[r]: what was drawn on the axes so far

vars == <<nb, entropy, dim, pc, iter, err, rng, env, heap, calls, reads, marks>>

Cur == Notebook(nb)[pc]
Done == err = "none" /\ pc = Len(Notebook(nb)) + 1
At(op) == err = "none" /\ pc <= Len(Notebook(nb)) /\ Cur.op = op

\* A name is bound once a statement has assigned or imported it.
Bound(r, name) == name \in DOMAIN env[r]
Missing(st) == \E r \in Run, i \in DOMAIN st.reads : ~Bound(r, st.reads[i])

RECURSIVE BindAll(_, _, _)
BindAll(e, names, vals) ==
    IF names = <<>> THEN e
    ELSE BindAll((Head(names) :> Head(vals)) @@ e, Tail(names), Tail(vals))

\* One draw from the generator: the state moves on.
Draw(g) == [g EXCEPT !.k = @ + 1]
\* np.random.seed(s): the state is set from s alone.
Seeded(s) == [src |-> "seed", s |-> s, k |-> 0]

Call(fn, line, args, res, gen, obj) ==
    [fn |-> fn, line |-> line, args |-> args, res |-> res, gen |-> gen,
     obj |-> obj]

\* An exception ends the run where it is.
Raise(e) ==
    /\ err' = e
    /\ UNCHANGED <<nb, entropy, dim, pc, iter, rng, env, heap, calls, reads,
                   marks>>

Init ==
    /\ nb \in {"ldt", "omni"}
    /\ entropy \in [Run -> 1..MaxEntropy]
    /\ dim \in 2..MaxDim
    /\ pc = 1
    /\ iter = 0
    /\ err = "none"
    /\ rng = [r \in Run |-> [src |-> "entropy", s |-> entropy[r], k |-> 0]]
    /\ env = [r \in Run |-> [x \in {} |-> NoneV]]
    /\ heap = [r \in Run |-> <<>>]
    /\ calls = [r \in Run |-> <<>>]
    /\ reads = [r \in Run |-> <<>>]
    /\ marks = [r \in Run |-> <<>>]

(***************************************************************************)
(* Statements of both notebooks                                            *)
(***************************************************************************)
\* import m / import m as x / from m import x, y
Import ==
    /\ At("import")
    /\ env' = [r \in Run |->
                 BindAll(env[r], Cur.tgt,
                         [i \in DOMAIN Cur.tgt |-> NameV(Cur.tgt[i])])]
    /\ pc' = pc + 1
    /\ UNCHANGED <<nb, entropy, dim, iter, err, rng, heap, calls, reads, marks>>

\* %matplotlib inline
Magic ==
    /\ At("magic")
    /\ pc' = pc + 1
    /\ UNCHANGED <<nb, entropy, dim, iter, err, rng, env, heap, calls, reads,
                   marks>>

\* np.random.seed(s)
Seed ==
    /\ At("seed")
    /\ IF Missing(Cur) THEN Raise("NameError")
       ELSE /\ rng' = [r \in Run |-> Seeded(Cur.lit.i)]
            /\ calls' = [r \in Run |->
                           Append(calls[r],
                                  Call("seed", Cur.line, <<Cur.lit>>, NoneV,
                                       rng[r], 0))]
            /\ pc' = pc + 1
            /\ UNCHANGED <<nb, entropy, dim, iter, err, env, heap, reads, marks>>

\* name = literal
Assign ==
    /\ At("assign")
    /\ IF Missing(Cur) THEN Raise("NameError")
       ELSE /\ env' = [r \in Run |-> BindAll(env[r], Cur.tgt, <<Cur.lit>>)]
            /\ pc' = pc + 1
            /\ UNCHANGED <<nb, entropy, dim, iter, err, rng, heap, calls, reads,
                           marks>>

\* G = sbm(n, P): a graph drawn from the generator.
Sbm ==
    /\ At("sbm")
    /\ IF Missing(Cur) THEN Raise("NameError")
       ELSE LET n(r) == env[r][Cur.reads[2]]
                P(r) == env[r][Cur.reads[3]]
                G(r) == [kind |-> "graph", n |-> n(r).xs, P |-> P(r).m,
                         id |-> rng[r]]
            IN /\ env' = [r \in Run |-> BindAll(env[r], Cur.tgt, <<G(r)>>)]
               /\ rng' = [r \in Run |-> Draw(rng[r])]
               /\ calls' = [r \in Run |->
                              Append(calls[r],
                                     Call("sbm", Cur.line, <<n(r), P(r)>>, G(r),
                                          rng[r], 0))]
               /\ pc' = pc + 1
               /\ UNCHANGED <<nb, entropy, dim, iter, err, heap, reads, marks>>

\* X = AdjacencySpectralEmbed(n_components=k).fit_transform(A)
Ase ==
    /\ At("ase")
    /\ IF Missing(Cur) THEN Raise("NameError")
       ELSE LET k(r) == env[r][Cur.reads[2]]
                A(r) == env[r][Cur.reads[3]]
                X(r) == [kind |-> "embed", of |-> A(r), ncomp |-> k(r),
                         id |-> rng[r]]
            IN /\ env' = [r \in Run |-> BindAll(env[r], Cur.tgt, <<X(r)>>)]
               /\ rng' = [r \in Run |-> Draw(rng[r])]
               /\ calls' = [r \in Run |->
                              Append(calls[r],
                                     Call("ase", Cur.line, <<k(r), A(r)>>, X(r),
                                          rng[r], 0))]
               /\ pc' = pc + 1
               /\ UNCHANGED <<nb, entropy, dim, iter, err, heap, reads, marks>>

\* heatmap(A, ...) / pairplot(X, ...)
Display ==
    /\ At("display")
    /\ IF Missing(Cur) THEN Raise("NameError")
       ELSE /\ calls' = [r \in Run |->
                           Append(calls[r],
                                  Call(Cur.reads[1], Cur.line,
                                       <<env[r][Cur.reads[2]]>>, NoneV,
                                       rng[r], 0))]
            /\ pc' = pc + 1
            /\ UNCHANGED <<nb, entropy, dim, iter, err, rng, env, heap, reads,
                           marks>>

\* ldt = LatentDistributionTest(test, metric=..., n_bootstraps=...): a new,
\* unfitted object; the name is bound to a reference to it.
NewLdt ==
    /\ At("newldt")
    /\ IF Missing(Cur) THEN Raise("NameError")
       ELSE LET o == [test |-> Cur.lit.test, metric |-> Cur.lit.metric,
                      nboot |-> Cur.lit.nboot, fitted |-> FALSE,
                      a |-> NoneV, b |-> NoneV, argnames |-> <<>>,
                      fitline |-> 0, gen |-> NoneV]
                ref(r) == [kind |-> "ref", id |-> Len(heap[r]) + 1]
            IN /\ heap' = [r \in Run |-> Append(heap[r], o)]
               /\ env' = [r \in Run |-> BindAll(env[r], Cur.tgt, <<ref(r)>>)]
               /\ calls' = [r \in Run |->
                              Append(calls[r],
                                     Call("LatentDistributionTest", Cur.line,
                                          <<Cur.lit>>, ref(r), rng[r],
                                          ref(r).id))]
               /\ pc' = pc + 1
               /\ UNCHANGED <<nb, entropy, dim, iter, err, rng, reads, marks>>

\* ldt.fit(A, B): the object the name refers to now holds the results of
\* the test of A against B (bootstrapped from the generator).
Fit ==
    /\ At("fit")
    /\ IF Missing(Cur) THEN Raise("NameError")
       ELSE LET id(r) == env[r][Cur.reads[1]].id
                A(r) == env[r][Cur.reads[2]]
                B(r) == env[r][Cur.reads[3]]
            IN /\ heap' = [r \in Run |->
                             [heap[r] EXCEPT ![id(r)] =
                                 [@ EXCEPT !.fitted = TRUE, !.a = A(r),
                                           !.b = B(r),
                                           !.argnames = Tail(Cur.reads),
                                           !.fitline = Cur.line,
                                           !.gen = rng[r]]]]
               /\ rng' = [r \in Run |-> Draw(rng[r])]
               /\ calls' = [r \in Run |->
                              Append(calls[r],
                                     Call("fit", Cur.line, <<A(r), B(r)>>,
                                          NoneV, rng[r], id(r)))]
               /\ pc' = pc + 1
               /\ UNCHANGED <<nb, entropy, dim, iter, err, env, reads, marks>>

\* The objects whose result attribute a statement reads.
ObjNames(st) == IF st.op = "axcall" THEN Tail(st.reads) ELSE st.reads
\* p_value_, null_distribution_ and sample_T_statistic_ exist once fit ran.
Unfitted(st) ==
    \E r \in Run, i \in DOMAIN ObjNames(st) :
        ~heap[r][env[r][ObjNames(st)[i]].id].fitted
ReadEv(r, st, name) ==
    LET id == env[r][name].id
        o == heap[r][id]
    IN [line |-> st.line, name |-> name, attr |-> st.attr, obj |-> id,
        test |-> o.test, argnames |-> o.argnames, fitline |-> o.fitline,
        a |-> o.a, b |-> o.b, gen |-> o.gen]
ReadAll(r, st) ==
    reads[r] \o [i \in DOMAIN ObjNames(st) |-> ReadEv(r, st, ObjNames(st)[i])]

\* print(ldt_dcorr.p_value_, ldt_mgc.p_value_)
PrintAttrs ==
    /\ At("print")
    /\ IF Missing(Cur) THEN Raise("NameError")
       ELSE IF Unfitted(Cur) THEN Raise("AttributeError")
       ELSE /\ reads' = [r \in Run |-> ReadAll(r, Cur)]
            /\ pc' = pc + 1
            /\ UNCHANGED <<nb, entropy, dim, iter, err, rng, env, heap, calls,
                           marks>>

\* fig, ax = plt.subplots(...)
Subplots ==
    /\ At("subplots")
    /\ IF Missing(Cur) THEN Raise("NameError")
       ELSE /\ env' = [r \in Run |->
                         BindAll(env[r], Cur.tgt,
                                 <<[kind |-> "figure"], [kind |-> "axes"]>>)]
            /\ pc' = pc + 1
            /\ UNCHANGED <<nb, entropy, dim, iter, err, rng, heap, calls, reads,
                           marks>>

\* ax[k].hist(ldt.attr, ...), ax[k].axvline(ldt.attr, ...),
\* ax[k].set_title("...".format(ldt.attr)), ax.legend(), ax.set_title(...)
AxCall ==
    /\ At("axcall")
    /\ IF Missing(Cur) THEN Raise("NameError")
       ELSE IF Unfitted(Cur) THEN Raise("AttributeError")
       ELSE /\ reads' = [r \in Run |-> ReadAll(r, Cur)]
            /\ pc' = pc + 1
            /\ UNCHANGED <<nb, entropy, dim, iter, err, rng, env, heap, calls,
                           marks>>

\* plt.show()
PltShow ==
    /\ At("pltshow")
    /\ IF Missing(Cur) THEN Raise("NameError")
       ELSE /\ pc' = pc + 1
            /\ UNCHANGED <<nb, entropy, dim, iter, err, rng, env, heap, calls,
                           reads, marks>>

\* embedder = OmnibusEmbed()
NewOmni ==
    /\ At("newomni")
    /\ IF Missing(Cur) THEN Raise("NameError")
       ELSE /\ env' = [r \in Run |->
                         BindAll(env[r], Cur.tgt, <<[kind |-> "omni"]>>)]
            /\ pc' = pc + 1
            /\ UNCHANGED <<nb, entropy, dim, iter, err, rng, heap, calls, reads,
                           marks>>

\* The estimated position of vertex v (counted from 0) of graph g.
Row(g, v) == [g |-> g.id, v |-> v]
\* Zhat = embedder.fit_transform([G1, G2]): one block per graph, in the
\* order of the list, one row per vertex of the graph, dim columns.
OmniFit ==
    /\ At("omnifit")
    /\ IF Missing(Cur) THEN Raise("NameError")
       ELSE LET gs(r) == [j \in 1..(Len(Cur.reads) - 1) |->
                             env[r][Cur.reads[j + 1]]]
                Z(r) == [kind |-> "array3",
                         blocks |-> [j \in DOMAIN gs(r) |->
                                       [v \in 1..SumSeq(gs(r)[j].n) |->
                                          Row(gs(r)[j], v - 1)]],
                         d |-> dim]
            IN /\ env' = [r \in Run |-> BindAll(env[r], Cur.tgt, <<Z(r)>>)]
               /\ rng' = [r \in Run |-> Draw(rng[r])]
               /\ calls' = [r \in Run |->
                              Append(calls[r],
                                     Call("omnifit", Cur.line, gs(r), NoneV,
                                          rng[r], 0))]
               /\ pc' = pc + 1
               /\ UNCHANGED <<nb, entropy, dim, iter, err, heap, reads, marks>>

\* print(Zhat.shape)
PrintShape ==
    /\ At("printshape")
    /\ IF Missing(Cur) THEN Raise("NameError")
       ELSE LET Z(r) == env[r][Cur.reads[1]]
                shape(r) == [kind |-> "shape",
                             dims |-> <<Len(Z(r).blocks),
                                        Len(Z(r).blocks[1]), Z(r).d>>]
            IN /\ calls' = [r \in Run |->
                              Append(calls[r],
                                     Call("printshape", Cur.line, <<>>,
                                          shape(r), rng[r], 0))]
               /\ pc' = pc + 1
               /\ UNCHANGED <<nb, entropy, dim, iter, err, rng, env, heap,
                              reads, marks>>

\* Xhat = Zhat[k]
Index ==
    /\ At("index")
    /\ IF Missing(Cur) THEN Raise("NameError")
       ELSE LET Z(r) == env[r][Cur.reads[1]]
                k == Cur.lit.i
            IN IF \E r \in Run : k >= Len(Z(r).blocks)
               THEN Raise("IndexError")
               ELSE /\ env' = [r \in Run |->
                                 BindAll(env[r], Cur.tgt,
                                         <<[kind |-> "array2",
                                            rows |-> Z(r).blocks[k + 1],
                                            d |-> Z(r).d]>>)]
                    /\ pc' = pc + 1
                    /\ UNCHANGED <<nb, entropy, dim, iter, err, rng, heap,
                                   calls, reads, marks>>

Min(a, b) == IF a < b THEN a ELSE b
\* rows[lo:hi] of Python, for bounds that are not negative: the rows with
\* index i (counted from 0), lo <= i < hi, clipped to the length.
PySlice(rows, sl) ==
    LET len == Len(rows)
        hi == IF sl.hiopen THEN len ELSE Min(sl.hi, len)
    IN SubSeq(rows, sl.lo + 1, hi)

Mark(method, line, pts) == [method |-> method, line |-> line, pts |-> pts]

\* ax.scatter(Xhat[lo:hi, 0], Xhat[lo:hi, 1], ...)
Scatter ==
    /\ At("scatter")
    /\ IF Missing(Cur) THEN Raise("NameError")
       ELSE LET X(r) == env[r][Cur.reads[2]]
                cols == Cur.lit.cols
            IN IF \E r \in Run, c \in DOMAIN cols : cols[c] >= X(r).d
               THEN Raise("IndexError")
               ELSE /\ marks' = [r \in Run |->
                                   Append(marks[r],
                                          Mark("scatter", Cur.line,
                                               PySlice(X(r).rows, Cur.lit)))]
                    /\ pc' = pc + 1
                    /\ UNCHANGED <<nb, entropy, dim, iter, err, rng, env, heap,
                                   calls, reads>>

\* for i in range(stop):
\*     ax.plot([Xhat1[i, 0], Xhat2[i, 0]], [Xhat1[i, 1], Xhat2[i, 1]], ...)
\* One step per iteration; the step after the last one leaves the loop.
ForPlot ==
    /\ At("forplot")
    /\ IF iter >= Cur.lit.stop
       THEN /\ pc' = pc + 1
            /\ iter' = 0
            /\ UNCHANGED <<nb, entropy, dim, err, rng, env, heap, calls, reads,
                           marks>>
       ELSE IF Missing(Cur) THEN Raise("NameError")
       ELSE LET X1(r) == env[r][Cur.reads[2]]
                X2(r) == env[r][Cur.reads[3]]
                cols == Cur.lit.cols
            IN IF \E r \in Run :
                    \/ iter >= Len(X1(r).rows)
                    \/ iter >= Len(X2(r).rows)
                    \/ \E c \in DOMAIN cols :
                          cols[c] >= X1(r).d \/ cols[c] >= X2(r).d
               THEN Raise("IndexError")
               ELSE /\ env' = [r \in Run |->
                                 BindAll(env[r], Cur.tgt, <<IntV(iter)>>)]
                    /\ marks' = [r \in Run |->
                                   Append(marks[r],
                                          Mark("plot", Cur.line,
                                               <<X1(r).rows[iter + 1],
                                                 X2(r).rows[iter + 1]>>))]
                    /\ iter' = iter + 1
                    /\ UNCHANGED <<nb, entropy, dim, pc, err, rng, heap, calls,
                                   reads>>

Next ==
    \/ Import \/ Magic \/ Seed \/ Assign \/ Sbm \/ Ase \/ Display
    \/ NewLdt \/ Fit \/ PrintAttrs \/ Subplots \/ AxCall \/ PltShow
    \/ NewOmni \/ OmniFit \/ PrintShape \/ Index \/ Scatter \/ ForPlot

Spec == Init /\ [][Next]_vars

TypeOK ==
    /\ nb \in {"ldt", "omni"}
    /\ pc \in 1..(Len(Notebook(nb)) + 1)
    /\ iter \in Nat
    /\ err \in {"none", "NameError", "AttributeError", "IndexError"}

(***************************************************************************)
(* Properties                                                              *)
(***************************************************************************)
CallsOf(r, fn) == SelectSeq(calls[r], LAMBDA c : c.fn = fn)
CallsAt(r, fn, line) ==
    SelectSeq(calls[r], LAMBDA c : c.fn = fn /\ c.line = line)
Range(f) == {f[i] : i \in DOMAIN f}
\* The calls that draw from the global generator.
DrawFns == {"sbm", "ase", "fit", "omnifit"}

\* C1: in the latent-distribution notebook the graphs given to the fits of
\* the null-is-true section (lines 111 and 121) are the graphs shown above:
\* the first argument is the graph heatmap displayed at line 50, the second
\* the graph heatmap displayed at line 72.
C1_FitGetsDisplayedGraphs ==
    nb = "ldt" =>
        \A r \in Run : \A c \in Range(CallsOf(r, "fit")) :
            c.line \in {111, 121} =>
                /\ \A h \in Range(CallsAt(r, "heatmap", 50)) :
                      c.args[1] = h.args[1]
                /\ \A h \in Range(CallsAt(r, "heatmap", 72)) :
                      c.args[2] = h.args[1]

\* C2: in the Omnibus notebook every sbm call gets the block sizes and the
\* block-probability matrix the tutorial text states: G1 (line 61) is
\* sampled with n = [25, 25] and P1 = [[0.2, 0.1], [0.1, 0.7]], G2 (line 62)
\* with n and P2 = [[0.2, 0.1], [0.1, 0.2]].
C2_SbmGetsDocumentedMatrices ==
    nb = "omni" =>
        \A r \in Run : \A c \in Range(CallsOf(r, "sbm")) :
            /\ c.args[1].xs = DocN
            /\ c.line = 61 => c.args[2].m = DocP1
            /\ c.line = 62 => c.args[2].m = DocP2

\* C3: when a run of the Omnibus notebook has ended, the sampled graphs
\* have been embedded by OmnibusEmbed and also by AdjacencySpectralEmbed.
C3_BothEmbeddingsCalled ==
    (nb = "omni" /\ Done) =>
        \A r \in Run :
            /\ \E c \in Range(CallsOf(r, "omnifit")) :
                  \A g \in Range(CallsOf(r, "sbm")) : g.res \in Range(c.args)
            /\ \A g \in Range(CallsOf(r, "sbm")) :
                  \E c \in Range(CallsOf(r, "ase")) : g.res \in Range(c.args)

Symmetric2x2(m) ==
    /\ Len(m) = 2
    /\ \A i \in 1..2 : Len(m[i]) = 2
    /\ m[1][2] = m[2][1]

\* C4: in the Omnibus notebook the matrices passed to the two sbm calls are
\* symmetric 2x2 matrices that differ in exactly one entry, the one of the
\* second block with itself, and both calls get the same block sizes.
C4_MatricesDifferInSecondBlockOnly ==
    nb = "omni" =>
        \A r \in Run :
            LET s == CallsOf(r, "sbm") IN
            /\ \A c \in Range(s) : Symmetric2x2(c.args[2].m)
            /\ Len(s) >= 2 =>
                  LET Pa == s[1].args[2].m
                      Pb == s[2].args[2].m
                  IN /\ {<<i, j>> \in (1..2) \X (1..2) : Pa[i][j] # Pb[i][j]}
                           = {<<2, 2>>}
                     /\ s[1].args[1] = s[2].args[1]

C4_Witness ==
    /\ nb = "omni"
    /\ Len(CallsOf(1, "sbm")) = 2
    /\ CallsOf(1, "sbm")[1].res = env[1]["G1"]
    /\ CallsOf(1, "sbm")[2].res = env[1]["G2"]

\* The fit calls on a test of the given kind made before the given line.
FitsBefore(r, test, line) ==
    SelectSeq(calls[r],
              LAMBDA c : c.fn = "fit" /\ c.line < line
                         /\ heap[r][c.obj].test = test)

\* C5: in the latent-distribution notebook every result attribute read
\* comes from a fitted object, and from the latest fit made on a test of
\* that kind; the reads of the first section (lines 130 to 146) report
\* fit(A1, A2), those of the second (lines 215 to 231) report fit(A1, A3).
C5_ReadsReportLatestFit ==
    nb = "ldt" =>
        /\ err # "AttributeError"
        /\ \A r \in Run : \A e \in Range(reads[r]) :
              LET fs == FitsBefore(r, e.test, e.line) IN
              /\ fs # <<>>
              /\ e.fitline = fs[Len(fs)].line
              /\ <<e.a, e.b>> = fs[Len(fs)].args
              /\ e.gen = fs[Len(fs)].gen
              /\ e.obj = fs[Len(fs)].obj
              /\ \/ e.line \in 130..146 /\ e.argnames = <<"A1", "A2">>
                 \/ e.line \in 215..231 /\ e.argnames = <<"A1", "A3">>

C5_Witness ==
    /\ nb = "ldt"
    /\ \E e \in Range(reads[1]) : e.line = 145 /\ e.test = "mgc"
    /\ \E e \in Range(reads[1]) : e.line = 230 /\ e.test = "mgc"
    /\ \E e \in Range(reads[1]) : e.line = 215 /\ e.test = "dcorr"

\* C6: no statement of either notebook reads a name that no earlier
\* statement of the run has bound: the statement about to run finds all
\* the names it reads, and no run ends in a NameError.
C6_NoUnboundName ==
    /\ err # "NameError"
    /\ (err = "none" /\ pc <= Len(Notebook(nb))) => ~Missing(Cur)

C6_Witness ==
    /\ Done
    /\ nb = "ldt"
    /\ \A r \in Run :
          {"A1", "A2", "A3", "X1", "X2", "X3", "ldt_dcorr", "ldt_mgc",
           "fig", "ax", "csize", "P", "P2", "n_components"}
              \subseteq DOMAIN env[r]

\* The rows of an embedding are the positions of the vertices of graph g,
\* in vertex order.
HoldsPositionsOf(X, g) ==
    /\ Len(X.rows) = SumSeq(g.n)
    /\ \A i \in DOMAIN X.rows : X.rows[i] = Row(g, i - 1)

\* The two scatter calls on one embedding split the vertices of graph g
\* into its two blocks.
SplitsIntoBlocks(r, lineA, lineB, g) ==
    \A ma \in Range(SelectSeq(marks[r], LAMBDA m : m.line = lineA)) :
    \A mb \in Range(SelectSeq(marks[r], LAMBDA m : m.line = lineB)) :
        /\ Range(ma.pts) = {Row(g, v) : v \in 0..(g.n[1] - 1)}
        /\ Range(mb.pts) = {Row(g, v) : v \in g.n[1]..(g.n[1] + g.n[2] - 1)}
        /\ Range(ma.pts) \cap Range(mb.pts) = {}
        /\ Len(ma.pts) + Len(mb.pts) = SumSeq(g.n)

\* C8: in the Omnibus notebook Xhat1 holds the positions of G1 and Xhat2
\* those of G2; the slices [:25] and [25:] split the 50 vertices of each
\* graph into its two blocks; the loop draws one line per vertex, the i-th
\* joining row i of Xhat1 to row i of Xhat2; no index is out of bounds.
C8_RowsSlicesAndLines ==
    nb = "omni" =>
        /\ err # "IndexError"
        /\ \A r \in Run :
              /\ Bound(r, "Xhat1") =>
                    HoldsPositionsOf(env[r]["Xhat1"], env[r]["G1"])
              /\ Bound(r, "Xhat2") =>
                    HoldsPositionsOf(env[r]["Xhat2"], env[r]["G2"])
              /\ Bound(r, "G1") => SumSeq(env[r]["G1"].n) = 50
              /\ Bound(r, "G1") =>
                    SplitsIntoBlocks(r, 143, 144, env[r]["G1"])
              /\ Bound(r, "G2") =>
                    SplitsIntoBlocks(r, 145, 146, env[r]["G2"])
              /\ LET ls == SelectSeq(marks[r], LAMBDA m : m.method = "plot")
                 IN /\ \A i \in DOMAIN ls :
                          ls[i].pts = <<env[r]["Xhat1"].rows[i],
                                        env[r]["Xhat2"].rows[i]>>
                    /\ Done => Len(ls) = SumSeq(env[r]["G1"].n)

C8_Witness ==
    /\ nb = "omni"
    /\ Done
    /\ Len(marks[1]) = 54

\* C9: in the latent-distribution notebook every fit call gets graphs; an
\* embedding computed by the notebook is an argument of pairplot calls only;
\* the X1 computed at line 71 is an argument of no call.
C9_FitGetsGraphsOnly ==
    nb = "ldt" =>
        \A r \in Run : \A c \in Range(calls[r]) :
            /\ c.fn = "fit" => \A a \in Range(c.args) : a.kind = "graph"
            /\ \A a \in Range(c.args) : a.kind = "embed" => c.fn = "pairplot"
            /\ \A x \in Range(CallsAt(r, "ase", 71)) :
                  \A a \in Range(c.args) : a # x.res

C9_Witness ==
    /\ nb = "ldt"
    /\ Done
    /\ Len(CallsOf(1, "fit")) = 4
    /\ Len(CallsOf(1, "pairplot")) = 3
    /\ Len(CallsAt(1, "ase", 71)) = 1

\* The seed the notebook states.
NotebookSeed == IF nb = "ldt" THEN IntV(8888) ELSE IntV(8)

\* C10: a run seeds the generator at most once, and exactly once, with the
\* notebook's seed, by the time it ends; every call that draws from the
\* generator is made after the seeding and the first one is an sbm call;
\* the two runs make the same drawing calls on the same generator states and
\* hold the same graphs.
C10_SeededOnceBeforeDraws ==
    /\ \A r \in Run :
          LET seeds == CallsOf(r, "seed")
              draws == SelectSeq(calls[r], LAMBDA c : c.fn \in DrawFns)
          IN /\ Len(seeds) <= 1
             /\ Done => Len(seeds) = 1
             /\ \A c \in Range(seeds) : c.args = <<NotebookSeed>>
             /\ \A c \in Range(draws) : c.gen.src = "seed"
             /\ draws # <<>> => draws[1].fn = "sbm"
    /\ Len(calls[1]) = Len(calls[2])
    /\ \A i \in DOMAIN calls[1] :
          calls[1][i].fn \in DrawFns => calls[1][i] = calls[2][i]
    /\ \A x \in DOMAIN env[1] :
          env[1][x].kind = "graph" => env[2][x] = env[1][x]

C10_Witness ==
    /\ Done
    /\ nb = "omni"
    /\ entropy[1] # entropy[2]
    /\ env[1]["G1"] = env[2]["G1"]
    /\ env[1]["G2"] = env[2]["G2"]
====
